---- MODULE Spec2Model ----
(***************************************************************************)
(* Task Manager API (server.js, embedded in README.md lines 266-564).      *)
(* State: the Tasks and UserProfiles collections, the server clock, the     *)
(* last request/response pair and the rate limiter's window.  One action   *)
(* per Express route.                                                      *)
(*                                                                         *)
(* Client (client/src/App.jsx, UserProfile.jsx): the state of one session  *)
(* and its requests and responses in flight.  One action per event         *)
(* handler, per request the server handles and per response the session    *)
(* receives.                                                               *)
(*                                                                         *)
(* JavaScript values are records tagged with their typeof; strings are     *)
(* sequences of one-character strings.                                     *)
(***************************************************************************)
EXTENDS Integers, Sequences, FiniteSets, Bags, TLC

VARIABLES tasks, nextId, now, profiles, pend, last, limiter, client, net

vars == <<tasks, nextId, now, profiles, pend, last, limiter, client, net>>

\* ------------------------------------------------------------------ bounds
MaxTasks == 2        \* ObjectIds the Tasks collection may hand out
MaxTime == 2         \* last millisecond of the server clock
MaxInflight == 2     \* handlers suspended at an await, requests under way
MaxClock == 3        \* last half window of the limiter's clock
MaxBurst == 31       \* requests one client sends within one half window
MaxCalls == 3        \* mutating calls the session makes

\* ------------------------------------------------------- JavaScript values
JUndefined == [type |-> "undefined"]
JNull == [type |-> "null"]
JTrue == [type |-> "boolean", bool |-> TRUE]
JFalse == [type |-> "boolean", bool |-> FALSE]
JNumber(n) == [type |-> "number", num |-> n]
JString(s) == [type |-> "string", str |-> s]
JDate(ms) == [type |-> "date", ms |-> ms]

\* ToBoolean, as applied by `?:`, `!` and `||`
Truthy(v) ==
  CASE v.type = "undefined" -> FALSE
    [] v.type = "null" -> FALSE
    [] v.type = "boolean" -> v.bool
    [] v.type = "number" -> v.num # 0
    [] v.type = "string" -> v.str # <<>>
    [] OTHER -> TRUE

\* the character c, n times
Rep(c, n) == SubSeq([i \in 1..n |-> c], 1, n)

\* String.prototype.trim
trim(s) ==
  LET n == Len(s)
  IN IF \A i \in 1..n : s[i] = " " THEN <<>>
     ELSE LET first == CHOOSE i \in 1..n :
                         s[i] # " " /\ \A j \in 1..(i - 1) : s[j] = " "
              last_ == CHOOSE i \in 1..n :
                         s[i] # " " /\ \A j \in (i + 1)..n : s[j] = " "
          IN SubSeq(s, first, last_)

\* input.replace(/[<>]/g, '')
replaceAngle(s) == SelectSeq(s, LAMBDA c : c \notin {"<", ">"})

\* xss(): text outside a tag goes through escapeHtml, which rewrites the two
\* angle brackets as entities.  (Tags cannot reach it: sanitizeInput removes
\* every angle bracket first.)
RECURSIVE escapeHtml(_)
escapeHtml(s) ==
  IF \A i \in 1..Len(s) : s[i] \notin {"<", ">"} THEN s
  ELSE (CASE Head(s) = "<" -> <<"&", "l", "t", ";">>
          [] Head(s) = ">" -> <<"&", "g", "t", ";">>
          [] OTHER -> <<Head(s)>>) \o escapeHtml(Tail(s))

xss(s) == escapeHtml(s)

\* sanitizeInput that leaves the angle brackets to xss()
sanitizeInputNoStrip(input) ==
  IF input.type # "string" THEN JString(<<>>)
  ELSE JString(trim(input.str))

\* sanitizeInput without the trim
sanitizeInputNoTrim(input) ==
  IF input.type # "string" THEN JString(<<>>)
  ELSE JString(xss(replaceAngle(input.str)))


sanitizeInput(input) ==
  IF input.type # "string" THEN JString(<<>>)
  ELSE JString(xss(trim(replaceAngle(input.str))))

MaxTitle == 100

\* validateTitle with the limit off by one
validateTitleOffByOne(title) ==
  IF title.type # "string" THEN FALSE
  ELSE LET trimmed == trim(title.str)
       IN Len(trimmed) > 0 /\ Len(trimmed) <= MaxTitle + 1


validateTitle(title) ==
  IF title.type # "string" THEN FALSE
  ELSE LET trimmed == trim(title.str)
       IN Len(trimmed) > 0 /\ Len(trimmed) <= MaxTitle

\* ------------------------------------------------------------ Auth0 / JWT
\* decoded.sub
UserA == <<"a", "u", "t", "h", "0", "|", "a">>
UserB == <<"a", "u", "t", "h", "0", "|", "b">>
NoUser == <<>>
Users == {UserA, UserB}

Audience == "https://taskmanager-api"
Issuer == "https://AUTH0_DOMAIN/"

\* A token: the claims it carries and whether its RS256 signature verifies
\* against the issuer's key set and it has not expired.
Token(sub, name, aud, alg, sig) ==
  [sub |-> sub, name |-> name, email |-> JUndefined,
   aud |-> aud, iss |-> Issuer, alg |-> alg, sig |-> sig]

TokenA == Token(UserA, JString(<<"A", "l">>), Audience, "RS256", TRUE)
TokenB == Token(UserB, JUndefined, Audience, "RS256", TRUE)
TokenForged == Token(UserA, JUndefined, Audience, "RS256", FALSE)
TokenHS256 == Token(UserA, JUndefined, Audience, "HS256", TRUE)
TokenOtherApi == Token(UserA, JUndefined, "https://other-api", "RS256", TRUE)

\* jwt.verify(token, getKey, {audience, issuer, algorithms: ['RS256']})
verify(token) ==
  /\ token.sig
  /\ token.alg \in {"RS256"}
  /\ token.aud = Audience
  /\ token.iss = Issuer

\* The Authorization header, as the words authHeader.split(' ') yields;
\* the empty sequence is an absent header.
NoHeader == <<>>
Bearer(token) == <<"Bearer", token>>
GoodHeaders == {Bearer(TokenA), Bearer(TokenB)}
BadHeaders ==
  {NoHeader, <<"Basic", TokenA>>, <<"Bearer">>, Bearer(TokenForged),
   Bearer(TokenHS256), Bearer(TokenOtherApi)}
Headers == GoodHeaders \cup BadHeaders

\* authHeader.startsWith('Bearer ')
startsWithBearer(h) == Len(h) >= 2 /\ h[1] = "Bearer"

\* jwtCheck that decodes the token without verifying it
jwtCheckDecodeOnly(h) ==
  IF h = NoHeader \/ ~startsWithBearer(h)
  THEN [next |-> FALSE, status |-> 401, error |-> "Access token is required"]
  ELSE [next |-> TRUE, user |-> h[2], userId |-> h[2].sub]

\* jwtCheck: either answers 401 itself or calls next() with req.user set
jwtCheck(h) ==
  IF h = NoHeader \/ ~startsWithBearer(h)
  THEN [next |-> FALSE, status |-> 401, error |-> "Access token is required"]
  ELSE LET token == h[2]
       IN IF ~verify(token)
          THEN [next |-> FALSE, status |-> 401, error |-> "Invalid token"]
          ELSE [next |-> TRUE, user |-> token, userId |-> token.sub]

\* ------------------------------------------------------------ request log
NotRead == [type |-> "notread"]
NoId == 0
BadId == -1          \* a :id that is not an ObjectId (CastError)

Routes ==
  {"GET /profile", "PUT /profile", "GET /tasks", "POST /tasks",
   "PUT /tasks/:id", "DELETE /tasks/:id"}

\* The request last answered: what the server read of it and what it answered.
\* `wrote` tells whether the handler wrote to a collection.
Response(route, hdr, userId, id, title, completed, status, body, wrote) ==
  [route |-> route, hdr |-> hdr, userId |-> userId, id |-> id,
   title |-> title, completed |-> completed, status |-> status, body |-> body,
   wrote |-> wrote]

Error(msg) == [error |-> msg]

\* ------------------------------------------------------------- Task model
TaskDoc(id, title, completed, completedAt, userId) ==
  [_id |-> id, title |-> title, completed |-> completed,
   completedAt |-> completedAt, userId |-> userId]

\* findOne without the owner in the filter
findOneAnyOwner(coll, id, userId) == {d \in coll : d._id = id}

\* Task.findOne({ _id, userId })
findOne(coll, id, userId) == {d \in coll : d._id = id /\ d.userId = userId}

\* find without the owner in the filter
findAnyOwner(coll, userId) == coll

\* Task.find({ userId })
find(coll, userId) == {d \in coll : d.userId = userId}

\* BSON comparison order of the values the sort keys take: a type's
\* position in the order, then the value within the type.
BsonKey(v) ==
  CASE v.type = "null" -> <<2, 0>>
    [] v.type = "undefined" -> <<2, 0>>
    [] v.type = "boolean" -> <<9, IF v.bool THEN 1 ELSE 0>>
    [] v.type = "date" -> <<10, v.ms>>

BsonCmp(a, b) ==
  LET ka == BsonKey(a)
      kb == BsonKey(b)
  IN IF ka[1] # kb[1] THEN (IF ka[1] < kb[1] THEN -1 ELSE 1)
     ELSE IF ka[2] # kb[2] THEN (IF ka[2] < kb[2] THEN -1 ELSE 1)
     ELSE 0

\* the order of .sort({ completed: 1 })
SortLeqCompletedOnly(d, e) == BsonCmp(d.completed, e.completed) <= 0

\* the order of .sort({ completed: 1, completedAt: 1 })
SortLeq(d, e) ==
  LET c == BsonCmp(d.completed, e.completed)
  IN IF c # 0 THEN c < 0 ELSE BsonCmp(d.completedAt, e.completedAt) <= 0

\* Every order the query may return: documents that compare equal under the
\* sort specification come back in an order the database chooses.
sort(docs) ==
  LET n == Cardinality(docs)
  IN {s \in [1..n -> docs] :
        /\ \A i, j \in 1..n : i # j => s[i] # s[j]
        /\ \A i, j \in 1..n : i < j => SortLeq(s[i], s[j])}

\* castUpdate that drops null values as it drops undefined ones
castUpdateDropsNull(d, update) ==
  [d EXCEPT !.title = IF update.title.type = "undefined" THEN @ ELSE update.title,
            !.completed = IF update.completed.type = "undefined" THEN @ ELSE update.completed,
            !.completedAt = IF update.completedAt.type \in {"undefined", "null"}
                            THEN @ ELSE update.completedAt]

\* Model.findByIdAndUpdate(id, update): keys whose value is undefined are
\* dropped from the update, the others are $set.
castUpdate(d, update) ==
  [d EXCEPT !.title = IF update.title.type = "undefined" THEN @ ELSE update.title,
            !.completed = IF update.completed.type = "undefined" THEN @ ELSE update.completed,
            !.completedAt = IF update.completedAt.type = "undefined" THEN @ ELSE update.completedAt]

findByIdAndUpdate(coll, id, update) ==
  {IF d._id = id THEN castUpdate(d, update) ELSE d : d \in coll}

findByIdAndDelete(coll, id) == {d \in coll : d._id # id}

\* ------------------------------------------------------ UserProfile model
MaxDisplayName == 50
MaxBio == 500
MaxAvatarUrl == 500

validateDisplayName(name) ==
  IF name.type # "string" THEN FALSE
  ELSE LET trimmed == trim(name.str)
       IN Len(trimmed) > 0 /\ Len(trimmed) <= MaxDisplayName

validateBio(bio) ==
  IF bio.type # "string" THEN TRUE
  ELSE Len(bio.str) <= MaxBio

Letters ==
  {"a", "b", "c", "d", "e", "f", "g", "h", "i", "j", "k", "l", "m", "n",
   "o", "p", "q", "r", "s", "t", "u", "v", "w", "x", "y", "z",
   "A", "B", "C", "D", "E", "F", "G", "H", "I", "J", "K", "L", "M", "N",
   "O", "P", "Q", "R", "S", "T", "U", "V", "W", "X", "Y", "Z"}
Digits == {"0", "1", "2", "3", "4", "5", "6", "7", "8", "9"}

\* new URL(url) does not throw: the text opens with a scheme and a colon,
\* and a scheme that needs a host is followed by one.
parsesAsURL(s) ==
  \E k \in 2..Len(s) :
    /\ s[k] = ":"
    /\ s[1] \in Letters
    /\ \A i \in 2..(k - 1) : s[i] \in Letters \cup Digits \cup {"+", "-", "."}
    /\ LET scheme == SubSeq(s, 1, k - 1)
       IN scheme \in {<<"h", "t", "t", "p">>, <<"h", "t", "t", "p", "s">>}
            => \E i \in (k + 1)..Len(s) : s[i] \notin {"/", "\\"}

validateAvatarUrl(url) ==
  IF ~Truthy(url) \/ url.type # "string" THEN TRUE
  ELSE IF Len(url.str) > MaxAvatarUrl THEN FALSE
  ELSE parsesAsURL(url.str)

\* Buffer.from(userId).toString('base64')
Base64Alphabet ==
  <<"A", "B", "C", "D", "E", "F", "G", "H", "I", "J", "K", "L", "M",
    "N", "O", "P", "Q", "R", "S", "T", "U", "V", "W", "X", "Y", "Z",
    "a", "b", "c", "d", "e", "f", "g", "h", "i", "j", "k", "l", "m",
    "n", "o", "p", "q", "r", "s", "t", "u", "v", "w", "x", "y", "z",
    "0", "1", "2", "3", "4", "5", "6", "7", "8", "9", "+", "/">>

CharCode ==
  [c \in {"a", "b", "h", "t", "u", "0", "|"} |->
     CASE c = "a" -> 97 [] c = "b" -> 98 [] c = "h" -> 104 [] c = "t" -> 116
       [] c = "u" -> 117 [] c = "0" -> 48 [] c = "|" -> 124]

RECURSIVE base64(_)
base64(s) ==
  IF Len(s) = 0 THEN <<>>
  ELSE IF Len(s) = 1
  THEN LET n == CharCode[s[1]] * 16
       IN <<Base64Alphabet[(n \div 64) + 1], Base64Alphabet[(n % 64) + 1],
            "=", "=">>
  ELSE IF Len(s) = 2
  THEN LET n == CharCode[s[1]] * 1024 + CharCode[s[2]] * 4
       IN <<Base64Alphabet[(n \div 4096) + 1],
            Base64Alphabet[((n \div 64) % 64) + 1],
            Base64Alphabet[(n % 64) + 1], "=">>
  ELSE LET n == CharCode[s[1]] * 65536 + CharCode[s[2]] * 256 + CharCode[s[3]]
       IN <<Base64Alphabet[(n \div 262144) + 1],
            Base64Alphabet[((n \div 4096) % 64) + 1],
            Base64Alphabet[((n \div 64) % 64) + 1],
            Base64Alphabet[(n % 64) + 1]>> \o base64(SubSeq(s, 4, Len(s)))

\* .replace(/[^a-zA-Z0-9]/g, '')
replaceNonAlnum(s) == SelectSeq(s, LAMBDA c : c \in Letters \cup Digits)

\* .substring(0, n)
substring0(s, n) == SubSeq(s, 1, IF Len(s) < n THEN Len(s) ELSE n)

SeedLength == 10
AvatarPrefix ==
  <<"h", "t", "t", "p", "s", ":", "/", "/", "a", "p", "i", ".", "d",
    "i", "c", "e", "b", "e", "a", "r", ".", "c", "o", "m", "/", "7",
    ".", "x", "/", "s", "h", "a", "p", "e", "s", "/", "s", "v", "g",
    "?", "s", "e", "e", "d", "=">>
AvatarSuffix ==
  <<"&", "b", "a", "c", "k", "g", "r", "o", "u", "n", "d", "C", "o",
    "l", "o", "r", "=", "0", "f", "0", "f", "2", "3", "&", "p", "r",
    "i", "m", "a", "r", "y", "C", "o", "l", "o", "r", "=", "6", "3",
    "6", "6", "f", "1">>

generateShapesAvatar(userId) ==
  LET seed == substring0(replaceNonAlnum(base64(userId)), SeedLength)
  IN JString(AvatarPrefix \o seed \o AvatarSuffix)

\* schema defaults of `preferences`
DefaultPreferences == [theme |-> "dark", emailNotifications |-> TRUE]

\* A UserProfile document (createdAt and updatedAt are not modelled).
ProfileDoc(userId, displayName, avatar, bio, preferences) ==
  [userId |-> userId, displayName |-> displayName, avatar |-> avatar,
   bio |-> bio, preferences |-> preferences]

\* UserProfile.findOne({ userId }): the position of the first match, 0 if none
findProfile(coll, userId) ==
  IF \E i \in 1..Len(coll) : coll[i].userId = userId
  THEN CHOOSE i \in 1..Len(coll) :
         coll[i].userId = userId /\ \A j \in 1..(i - 1) : coll[j].userId # userId
  ELSE 0

\* no unique index
uniqueIndexAbsent(coll, doc) == TRUE

\* the unique index on userId admits the document
uniqueIndexAdmits(coll, doc) ==
  \A i \in 1..Len(coll) : coll[i].userId # doc.userId

\* $set of the keys present in updateData
applyUpdate(doc, updateData) ==
  [doc EXCEPT
     !.displayName = IF updateData.displayName.type = "undefined" THEN @
                     ELSE updateData.displayName,
     !.avatar = IF updateData.avatar.type = "undefined" THEN @
                ELSE updateData.avatar,
     !.bio = IF updateData.bio.type = "undefined" THEN @ ELSE updateData.bio,
     !.preferences = IF updateData.preferences.type = "undefined" THEN @
                     ELSE updateData.preferences.obj]

\* UserProfile.findOneAndUpdate({ userId }, updateData, { new: true,
\* upsert: true }): the collection afterwards
findOneAndUpdate(coll, userId, updateData) ==
  LET i == findProfile(coll, userId)
  IN IF i # 0 THEN [coll EXCEPT ![i] = applyUpdate(@, updateData)]
     ELSE Append(coll,
                 applyUpdate(ProfileDoc(userId, JUndefined, JUndefined,
                                        JUndefined, DefaultPreferences),
                             updateData))

\* ------------------------------------------------------- request payloads
BuyMilk == <<"B", "u", "y", " ", "m", "i", "l", "k">>
ScriptShipIt ==
  <<"<", "s", "c", "r", "i", "p", "t", ">", "a", "l", "e", "r", "t", "(",
    "1", ")", "<", "/", "s", "c", "r", "i", "p", "t", ">", "S", "h", "i",
    "p", " ", "i", "t">>

\* req.body.title: a plain title, the same title padded with blanks to 101
\* characters, a title with markup, 101 letters, brackets and blanks only,
\* and a number.
Titles ==
  {JString(BuyMilk),
   JString(BuyMilk \o Rep(" ", 93)),
   JString(ScriptShipIt),
   JString(Rep("a", 101)),
   JString(<<" ", "<", ">", " ">>),
   JNumber(42)}

\* a valid and an invalid title
PlainTitles == {JString(BuyMilk), JNumber(42)}

\* req.body.completed
Completions == {JTrue, JFalse, JUndefined}

\* req.params.id: the ObjectIds, and a string that is not one
Ids == 1..MaxTasks

\* PUT /profile bodies: the client's form with every field, a display name
\* that is markup only, and bodies with one field that fails validation.
Zed == <<"Z", "e", "d">>
PhotoUrl ==
  <<"h", "t", "t", "p", "s", ":", "/", "/", "x", ".", "i", "o", "/", "a">>
Body(displayName, avatar, bio, preferences) ==
  [displayName |-> displayName, avatar |-> avatar, bio |-> bio,
   preferences |-> preferences]
LightTheme ==
  [type |-> "object", obj |-> [theme |-> "light", emailNotifications |-> FALSE]]

ProfileBodies ==
  {Body(JString(Zed), JString(PhotoUrl), JString(<<>>), LightTheme),
   Body(JString(<<" ", "<", ">">>), JUndefined, JUndefined, JUndefined),
   Body(JString(Rep("n", 51)), JUndefined, JUndefined, JUndefined),
   Body(JString(Zed), JUndefined, JString(Rep("b", 501)), JUndefined),
   Body(JUndefined, JString(<<"n", "o", " ", "u", "r", "l">>), JUndefined,
        JUndefined)}

\* ------------------------------------------------------------------- Init
\* UserProfile before it is mounted: its useState initial values
Unmounted ==
  [profile |-> JNull, editing |-> FALSE, loading |-> FALSE,
   formData |-> [displayName |-> JString(<<>>), avatar |-> JString(<<>>),
                 bio |-> JString(<<>>)]]

Init ==
  /\ tasks = {}
  /\ nextId = 1
  /\ now = 1
  /\ profiles = <<>>
  /\ pend = EmptyBag
  /\ last = Response("none", NoHeader, NoUser, NoId, NotRead, NotRead, 0, JNull,
                     FALSE)
  /\ limiter = [hits |-> 0, resetTime |-> 0, recent |-> <<0, 0>>]
  /\ client = [tasks |-> <<>>, newTask |-> <<>>, editTaskId |-> NoId,
               editTaskTitle |-> <<>>, loading |-> FALSE, calls |-> 0,
               showProfile |-> FALSE, userProfile |-> JNull,
               panel |-> Unmounted, isAuthenticated |-> FALSE,
               hasCheckedProfile |-> FALSE, timers |-> 0, scheduled |-> 0]
  /\ net = EmptyBag

\* the clock advances
Tick ==
  /\ now < MaxTime
  /\ now' = now + 1
  /\ UNCHANGED <<tasks, nextId, profiles, pend, last>>

\* jwtCheck answers 401 on a protected route; the route's handler is not
\* called
Unauthorized(route, h) ==
  LET auth == jwtCheck(h)
  IN /\ ~auth.next
     /\ last' = Response(route, h, NoUser, NoId, NotRead, NotRead,
                         auth.status, Error(auth.error), FALSE)
     /\ UNCHANGED <<tasks, nextId, now, profiles, pend>>

\* app.get('/tasks')
GetTasks(h) ==
  LET auth == jwtCheck(h)
  IN /\ auth.next
     /\ \E found \in sort(find(tasks, auth.userId)) :
          last' = Response("GET /tasks", h, auth.userId, NoId, NotRead,
                           NotRead, 200, found, FALSE)
     /\ UNCHANGED <<tasks, nextId, now, profiles, pend>>

\* POST /tasks that stores the task for the owner a payload names
PostTaskOwnerFromBody(h, title) ==
  LET auth == jwtCheck(h)
      cleanTitle == sanitizeInput(title)
      task == TaskDoc(nextId, cleanTitle, JFalse, JNull, UserB)
  IN /\ auth.next
     /\ IF ~validateTitle(cleanTitle)
        THEN /\ last' = Response("POST /tasks", h, auth.userId, NoId, title,
                                 NotRead, 400, Error("Invalid title input."), FALSE)
             /\ UNCHANGED <<tasks, nextId>>
        ELSE /\ nextId <= MaxTasks
             /\ tasks' = tasks \cup {task}
             /\ nextId' = nextId + 1
             /\ last' = Response("POST /tasks", h, auth.userId, NoId, title,
                                 NotRead, 200, task, TRUE)
     /\ UNCHANGED <<now, profiles, pend>>

\* app.post('/tasks')
PostTask(h, title) ==
  LET auth == jwtCheck(h)
      cleanTitle == sanitizeInput(title)
      task == TaskDoc(nextId, cleanTitle, JFalse, JNull, auth.userId)
  IN /\ auth.next
     /\ IF ~validateTitle(cleanTitle)
        THEN /\ last' = Response("POST /tasks", h, auth.userId, NoId, title,
                                 NotRead, 400, Error("Invalid title input."), FALSE)
             /\ UNCHANGED <<tasks, nextId>>
        ELSE /\ nextId <= MaxTasks
             /\ tasks' = tasks \cup {task}
             /\ nextId' = nextId + 1
             /\ last' = Response("POST /tasks", h, auth.userId, NoId, title,
                                 NotRead, 200, task, TRUE)
     /\ UNCHANGED <<now, profiles, pend>>

\* PUT /tasks/:id that looks the task up by id alone and answers 403 when
\* the owner is another user
PutTaskAnswerForbids(h, id, title, completed) ==
  LET auth == jwtCheck(h)
      cleanTitle == sanitizeInput(title)
      update == [title |-> cleanTitle,
                 completed |-> completed,
                 completedAt |-> IF Truthy(completed) THEN JDate(now) ELSE JNull]
      updated == findByIdAndUpdate(tasks, id, update)
  IN IF ~validateTitle(cleanTitle)
     THEN Response("PUT /tasks/:id", h, auth.userId, id, title, NotRead, 400,
                   Error("Invalid title input."), FALSE)
     ELSE IF id = BadId
     THEN Response("PUT /tasks/:id", h, auth.userId, id, title, NotRead, 500,
                   Error("Internal server error"), FALSE)
     ELSE IF findOneAnyOwner(tasks, id, auth.userId) = {}
     THEN Response("PUT /tasks/:id", h, auth.userId, id, title, NotRead, 404,
                   Error("Task not found"), FALSE)
     ELSE IF findOne(tasks, id, auth.userId) = {}
     THEN Response("PUT /tasks/:id", h, auth.userId, id, title, NotRead, 403,
                   Error("Forbidden"), FALSE)
     ELSE Response("PUT /tasks/:id", h, auth.userId, id, title, completed, 200,
                   CHOOSE d \in updated : d._id = id, TRUE)

\* app.put('/tasks/:id'): the answer the handler gives in the current state
PutTaskAnswer(h, id, title, completed) ==
  LET auth == jwtCheck(h)
      cleanTitle == sanitizeInput(title)
      update == [title |-> cleanTitle,
                 completed |-> completed,
                 completedAt |-> IF Truthy(completed) THEN JDate(now) ELSE JNull]
      updated == findByIdAndUpdate(tasks, id, update)
  IN IF ~validateTitle(cleanTitle)
     THEN Response("PUT /tasks/:id", h, auth.userId, id, title, NotRead, 400,
                   Error("Invalid title input."), FALSE)
     ELSE IF id = BadId
     THEN Response("PUT /tasks/:id", h, auth.userId, id, title, NotRead, 500,
                   Error("Internal server error"), FALSE)
     ELSE IF findOne(tasks, id, auth.userId) = {}
     THEN Response("PUT /tasks/:id", h, auth.userId, id, title, NotRead, 404,
                   Error("Task not found"), FALSE)
     ELSE Response("PUT /tasks/:id", h, auth.userId, id, title, completed, 200,
                   CHOOSE d \in updated : d._id = id, TRUE)

\* app.put('/tasks/:id')
PutTask(h, id, title, completed) ==
  LET auth == jwtCheck(h)
      answer == PutTaskAnswer(h, id, title, completed)
      update == [title |-> sanitizeInput(title),
                 completed |-> completed,
                 completedAt |-> IF Truthy(completed) THEN JDate(now) ELSE JNull]
  IN /\ auth.next
     /\ last' = answer
     /\ tasks' = IF answer.wrote THEN findByIdAndUpdate(tasks, id, update)
                 ELSE tasks
     /\ UNCHANGED <<nextId, now, profiles, pend>>

\* app.delete('/tasks/:id'): the answer the handler gives in the current
\* state
DeleteTaskAnswer(h, id) ==
  LET auth == jwtCheck(h)
  IN IF id = BadId
     THEN Response("DELETE /tasks/:id", h, auth.userId, id, NotRead, NotRead,
                   500, Error("Internal server error"), FALSE)
     ELSE IF findOne(tasks, id, auth.userId) = {}
     THEN Response("DELETE /tasks/:id", h, auth.userId, id, NotRead, NotRead,
                   404, Error("Task not found"), FALSE)
     ELSE Response("DELETE /tasks/:id", h, auth.userId, id, NotRead, NotRead,
                   200, [message |-> "Task deleted"], TRUE)

\* app.delete('/tasks/:id')
DeleteTask(h, id) ==
  LET auth == jwtCheck(h)
      answer == DeleteTaskAnswer(h, id)
  IN /\ auth.next
     /\ last' = answer
     /\ tasks' = IF answer.wrote THEN findByIdAndDelete(tasks, id) ELSE tasks
     /\ UNCHANGED <<nextId, now, profiles, pend>>

\* a || b
Or(a, b) == IF Truthy(a) THEN a ELSE b

\* GET /profile that builds a profile whether or not it found one
GetProfileAlwaysCreates(h) ==
  LET auth == jwtCheck(h)
      profile == ProfileDoc(auth.userId, JString(<<"U", "s", "e", "r">>),
                            generateShapesAvatar(auth.userId),
                            JUndefined, DefaultPreferences)
  IN /\ auth.next
     /\ BagCardinality(pend) < MaxInflight
     /\ pend' = pend (+) SetToBag({[hdr |-> h, userId |-> auth.userId,
                                    profile |-> profile]})
     /\ UNCHANGED <<tasks, nextId, now, profiles, last>>

\* app.get('/profile') up to `await profile.save()`: answers with the profile
\* it finds, or builds the default profile and suspends at the save
GetProfileFind(h) ==
  LET auth == jwtCheck(h)
      i == findProfile(profiles, auth.userId)
      profile == ProfileDoc(auth.userId,
                            Or(auth.user.name,
                               Or(auth.user.email, JString(<<"U", "s", "e", "r">>))),
                            generateShapesAvatar(auth.userId),
                            JUndefined, DefaultPreferences)
  IN /\ auth.next
     /\ IF i # 0
        THEN /\ last' = Response("GET /profile", h, auth.userId, NoId, NotRead,
                                 NotRead, 200, profiles[i], FALSE)
             /\ UNCHANGED pend
        ELSE /\ BagCardinality(pend) < MaxInflight
             /\ pend' = pend (+) SetToBag({[hdr |-> h, userId |-> auth.userId,
                                            profile |-> profile]})
             /\ UNCHANGED last
     /\ UNCHANGED <<tasks, nextId, now, profiles>>

\* app.get('/profile') from `await profile.save()` on: the insert, which the
\* unique index on userId refuses if the user has a profile by now
GetProfileSave(c) ==
  /\ BagIn(c, pend)
  /\ pend' = pend (-) SetToBag({c})
  /\ IF uniqueIndexAdmits(profiles, c.profile)
     THEN /\ profiles' = Append(profiles, c.profile)
          /\ last' = Response("GET /profile", c.hdr, c.userId, NoId, NotRead,
                              NotRead, 200, c.profile, TRUE)
     ELSE /\ last' = Response("GET /profile", c.hdr, c.userId, NoId, NotRead,
                              NotRead, 500, Error("Internal server error"),
                              FALSE)
          /\ UNCHANGED profiles
  /\ UNCHANGED <<tasks, nextId, now>>

\* PUT /profile that stores each field as soon as it has validated it
PutProfileWritesAsItValidates(h, body) ==
  LET auth == jwtCheck(h)
      nameOnly == [displayName |-> IF body.displayName # JUndefined
                                   THEN sanitizeInput(body.displayName)
                                   ELSE JUndefined,
                   avatar |-> JUndefined, bio |-> JUndefined,
                   preferences |-> JUndefined]
      nameStored == findOneAndUpdate(profiles, auth.userId, nameOnly)
      updateData == [nameOnly EXCEPT
                       !.avatar = IF body.avatar # JUndefined
                                  THEN sanitizeInput(body.avatar) ELSE JUndefined,
                       !.bio = IF body.bio # JUndefined
                               THEN sanitizeInput(body.bio) ELSE JUndefined,
                       !.preferences = IF Truthy(body.preferences)
                                       THEN body.preferences ELSE JUndefined]
      updated == findOneAndUpdate(profiles, auth.userId, updateData)
      Reject(msg, coll) ==
        /\ last' = Response("PUT /profile", h, auth.userId, NoId, NotRead,
                            NotRead, 400, Error(msg), FALSE)
        /\ profiles' = coll
  IN /\ auth.next
     /\ IF body.displayName # JUndefined /\ ~validateDisplayName(body.displayName)
        THEN Reject("Display name must be 1-50 characters long", profiles)
        ELSE IF body.bio # JUndefined /\ ~validateBio(body.bio)
        THEN Reject("Bio must be less than 500 characters", nameStored)
        ELSE IF body.avatar # JUndefined /\ ~validateAvatarUrl(body.avatar)
        THEN Reject("Invalid avatar URL or URL too long", nameStored)
        ELSE /\ profiles' = updated
             /\ last' = Response("PUT /profile", h, auth.userId, NoId, NotRead,
                                 NotRead, 200,
                                 updated[findProfile(updated, auth.userId)],
                                 TRUE)
     /\ UNCHANGED <<tasks, nextId, now, pend>>

\* app.put('/profile')
PutProfile(h, body) ==
  LET auth == jwtCheck(h)
      displayName == body.displayName
      avatar == body.avatar
      bio == body.bio
      preferences == body.preferences
      updateData ==
        [displayName |-> IF displayName # JUndefined
                         THEN sanitizeInput(displayName) ELSE JUndefined,
         avatar |-> IF avatar # JUndefined THEN sanitizeInput(avatar)
                    ELSE JUndefined,
         bio |-> IF bio # JUndefined THEN sanitizeInput(bio) ELSE JUndefined,
         preferences |-> IF Truthy(preferences) THEN preferences
                         ELSE JUndefined]
      updated == findOneAndUpdate(profiles, auth.userId, updateData)
      Reject(msg) ==
        /\ last' = Response("PUT /profile", h, auth.userId, NoId, NotRead,
                            NotRead, 400, Error(msg), FALSE)
        /\ UNCHANGED profiles
  IN /\ auth.next
     /\ IF displayName # JUndefined /\ ~validateDisplayName(displayName)
        THEN Reject("Display name must be 1-50 characters long")
        ELSE IF bio # JUndefined /\ ~validateBio(bio)
        THEN Reject("Bio must be less than 500 characters")
        ELSE IF avatar # JUndefined /\ ~validateAvatarUrl(avatar)
        THEN Reject("Invalid avatar URL or URL too long")
        ELSE /\ profiles' = updated
             /\ last' = Response("PUT /profile", h, auth.userId, NoId, NotRead,
                                 NotRead, 200,
                                 updated[findProfile(updated, auth.userId)],
                                 TRUE)
     /\ UNCHANGED <<tasks, nextId, now, pend>>

\* ----------------------------------------------------------- rate limiter
\* rateLimit({ windowMs, max, message }) with its memory store, keyed by the
\* client address; one client address is followed.  The clock of the
\* limiter's runs steps by half a window.
windowMs == 60000
max == 30
HalfWindow == windowMs \div 2
Ms(t) == t * HalfWindow

TooManyRequests ==
  [text |-> "Too many requests from this IP, please try again later."]

\* increment that never starts a new window
incrementNeverResets(l, t) ==
  IF l.hits = 0
  THEN [l EXCEPT !.hits = 1, !.resetTime = Ms(t) + windowMs]
  ELSE [l EXCEPT !.hits = @ + 1]

\* store.increment(key): the first hit, and the first hit after the window
\* has run out, open a window of windowMs; every hit is counted in the open
\* window
increment(l, t) ==
  IF l.hits = 0 \/ Ms(t) >= l.resetTime
  THEN [l EXCEPT !.hits = 1, !.resetTime = Ms(t) + windowMs]
  ELSE [l EXCEPT !.hits = @ + 1]

\* app.use(limiter) in front of a route: counts the request and answers 429
\* once the window holds more than max, else calls the route
Limited(route, h, handler) ==
  LET l == increment(limiter, now)
  IN /\ limiter.recent[2] < MaxBurst
     /\ limiter' = [l EXCEPT !.recent[2] = @ + 1]
     /\ IF l.hits > max
        THEN /\ last' = Response(route, h, NoUser, NoId, NotRead, NotRead, 429,
                                 TooManyRequests, FALSE)
             /\ UNCHANGED <<tasks, nextId, now, profiles, pend>>
        ELSE handler

\* half a window passes
Elapse ==
  /\ now < MaxClock
  /\ now' = now + 1
  /\ limiter' = [limiter EXCEPT !.recent = <<@[2], 0>>]
  /\ UNCHANGED <<tasks, nextId, profiles, pend, last>>

\* new Date().toISOString()
toISOString(d) == [type |-> "string", iso |-> d.ms]

\* GET /health registered behind jwtCheck
HealthBehindJwtCheck(h) ==
  LET auth == jwtCheck(h)
  IN /\ last' = IF auth.next
                THEN Response("GET /health", h, NoUser, NoId, NotRead, NotRead,
                              200,
                              [status |-> "OK",
                               timestamp |-> toISOString(JDate(now)),
                               service |-> "Task Manager API"], FALSE)
                ELSE Response("GET /health", h, NoUser, NoId, NotRead, NotRead,
                              auth.status, Error(auth.error), FALSE)
     /\ UNCHANGED <<tasks, nextId, now, profiles, pend>>

\* app.get('/health')
Health(h) ==
  /\ last' = Response("GET /health", h, NoUser, NoId, NotRead, NotRead, 200,
                      [status |-> "OK", timestamp |-> toISOString(JDate(now)),
                       service |-> "Task Manager API"], FALSE)
  /\ UNCHANGED <<tasks, nextId, now, profiles, pend>>

\* app.use('*'): a method and path that no route matches
UnknownRoutes == {"POST /profile/new-avatar", "GET /"}

\* a server that defines the routes: it answers 200 with a new avatar
NewAvatarRoute(route, h) ==
  /\ route \in UnknownRoutes
  /\ last' = Response(route, h, NoUser, NoId, NotRead, NotRead, 200,
                      [avatar |-> JString(<<"n", "e", "w">>)], FALSE)
  /\ UNCHANGED <<tasks, nextId, now, profiles, pend>>

\* the 404 handler
NotFound(route, h) ==
  /\ route \in UnknownRoutes
  /\ last' = Response(route, h, NoUser, NoId, NotRead, NotRead, 404,
                      Error("Route not found"), FALSE)
  /\ UNCHANGED <<tasks, nextId, now, profiles, pend>>

\* callers without a valid credential
Anonymous == {NoHeader, Bearer(TokenForged)}

\* no session of the client is followed
NoSession == UNCHANGED <<client, net>>

\* One client address sends requests to the public route, to a protected
\* route and to unknown routes while time passes.
NextLimiter ==
  \/ /\ Elapse
     /\ NoSession
  \/ /\ \E h \in Anonymous : Limited("GET /health", h, Health(h))
     /\ NoSession
  \/ /\ \E h \in Anonymous :
          Limited("GET /tasks", h, Unauthorized("GET /tasks", h))
     /\ NoSession
  \/ /\ \E r \in UnknownRoutes, h \in Anonymous : Limited(r, h, NotFound(r, h))
     /\ NoSession

SpecLimiter == Init /\ [][NextLimiter]_vars

\* the limiter admits the request: the client is under its limit, and the
\* count of its requests is not followed
Admitted == UNCHANGED <<limiter, client, net>>

\* Requests with every kind of credential and title; no request sets
\* `completed`.
NextInput ==
  \/ /\ \E r \in Routes, h \in Headers : Unauthorized(r, h)
     /\ Admitted
  \/ /\ \E h \in Headers : GetTasks(h)
     /\ Admitted
  \/ /\ \E h \in Headers, t \in Titles : PostTask(h, t)
     /\ Admitted
  \/ /\ \E h \in Headers, id \in Ids \cup {BadId}, t \in Titles :
          PutTask(h, id, t, JUndefined)
     /\ Admitted
  \/ /\ \E h \in Headers, id \in Ids \cup {BadId} : DeleteTask(h, id)
     /\ Admitted

SpecInput == Init /\ [][NextInput]_vars

\* Authenticated requests of two users that create, complete, reopen,
\* retitle and delete tasks while the clock advances.
NextTasks ==
  \/ /\ Tick
     /\ Admitted
  \/ /\ \E h \in GoodHeaders : GetTasks(h)
     /\ Admitted
  \/ /\ \E h \in GoodHeaders, t \in PlainTitles : PostTask(h, t)
     /\ Admitted
  \/ /\ \E h \in GoodHeaders, id \in Ids, t \in PlainTitles, c \in Completions :
          PutTask(h, id, t, c)
     /\ Admitted
  \/ /\ \E h \in GoodHeaders, id \in Ids : DeleteTask(h, id)
     /\ Admitted

SpecTasks == Init /\ [][NextTasks]_vars

\* Authenticated profile requests of two users; GET /profile handlers
\* interleave at their await.
NextProfile ==
  \/ /\ \E h \in GoodHeaders : GetProfileFind(h)
     /\ Admitted
  \/ /\ \E c \in BagToSet(pend) : GetProfileSave(c)
     /\ Admitted
  \/ /\ \E h \in GoodHeaders, b \in ProfileBodies : PutProfile(h, b)
     /\ Admitted

SpecProfile == Init /\ [][NextProfile]_vars

\* Requests of two users that the routes validate: POST /tasks, PUT
\* /tasks/:id and PUT /profile with valid and invalid payloads.
NextValidation ==
  \/ /\ \E h \in GoodHeaders, t \in PlainTitles : PostTask(h, t)
     /\ Admitted
  \/ /\ \E h \in GoodHeaders, id \in Ids, t \in PlainTitles :
          PutTask(h, id, t, JTrue)
     /\ Admitted
  \/ /\ \E h \in GoodHeaders, b \in ProfileBodies : PutProfile(h, b)
     /\ Admitted

SpecValidation == Init /\ [][NextValidation]_vars

\* app.put('/tasks/:id') up to `await Task.findByIdAndUpdate`: validation
\* and the ownership lookup; the handler answers, or suspends before the
\* write
PutTaskFind(h, id, title, completed) ==
  LET auth == jwtCheck(h)
      cleanTitle == sanitizeInput(title)
      Answer(status, msg) ==
        /\ last' = Response("PUT /tasks/:id", h, auth.userId, id, title,
                            NotRead, status, Error(msg), FALSE)
        /\ UNCHANGED pend
  IN /\ auth.next
     /\ IF ~validateTitle(cleanTitle)
        THEN Answer(400, "Invalid title input.")
        ELSE IF id = BadId
        THEN Answer(500, "Internal server error")
        ELSE IF findOne(tasks, id, auth.userId) = {}
        THEN Answer(404, "Task not found")
        ELSE /\ BagCardinality(pend) < MaxInflight
             /\ pend' = pend (+)
                  SetToBag({[route |-> "PUT /tasks/:id", hdr |-> h,
                             userId |-> auth.userId, id |-> id,
                             title |-> title, completed |-> completed]})
             /\ UNCHANGED last
     /\ UNCHANGED <<tasks, nextId, now, profiles>>

\* app.put('/tasks/:id') from `await Task.findByIdAndUpdate` on: the write,
\* which yields null if no task has the id by now, and res.json of what it
\* yields
PutTaskWrite(c) ==
  LET update == [title |-> sanitizeInput(c.title),
                 completed |-> c.completed,
                 completedAt |-> IF Truthy(c.completed) THEN JDate(now)
                                 ELSE JNull]
      updated == findByIdAndUpdate(tasks, c.id, update)
      found == \E d \in tasks : d._id = c.id
  IN /\ BagIn(c, pend)
     /\ c.route = "PUT /tasks/:id"
     /\ pend' = pend (-) SetToBag({c})
     /\ tasks' = updated
     /\ last' = Response("PUT /tasks/:id", c.hdr, c.userId, c.id, c.title,
                         c.completed, 200,
                         IF found THEN CHOOSE d \in updated : d._id = c.id
                         ELSE JNull,
                         found)
     /\ UNCHANGED <<nextId, now, profiles>>

\* app.delete('/tasks/:id') up to `await Task.findByIdAndDelete`
DeleteTaskFind(h, id) ==
  LET auth == jwtCheck(h)
      Answer(status, msg) ==
        /\ last' = Response("DELETE /tasks/:id", h, auth.userId, id, NotRead,
                            NotRead, status, Error(msg), FALSE)
        /\ UNCHANGED pend
  IN /\ auth.next
     /\ IF id = BadId
        THEN Answer(500, "Internal server error")
        ELSE IF findOne(tasks, id, auth.userId) = {}
        THEN Answer(404, "Task not found")
        ELSE /\ BagCardinality(pend) < MaxInflight
             /\ pend' = pend (+)
                  SetToBag({[route |-> "DELETE /tasks/:id", hdr |-> h,
                             userId |-> auth.userId, id |-> id,
                             title |-> NotRead, completed |-> NotRead]})
             /\ UNCHANGED last
     /\ UNCHANGED <<tasks, nextId, now, profiles>>

\* app.delete('/tasks/:id') from `await Task.findByIdAndDelete` on
DeleteTaskWrite(c) ==
  /\ BagIn(c, pend)
  /\ c.route = "DELETE /tasks/:id"
  /\ pend' = pend (-) SetToBag({c})
  /\ tasks' = findByIdAndDelete(tasks, c.id)
  /\ last' = Response("DELETE /tasks/:id", c.hdr, c.userId, c.id, NotRead,
                      NotRead, 200, [message |-> "Task deleted"],
                      \E d \in tasks : d._id = c.id)
  /\ UNCHANGED <<nextId, now, profiles>>

\* User A creates tasks and sends PUT and DELETE requests whose handlers
\* take their turns at the database in any order.
NextRace ==
  \/ /\ PostTask(Bearer(TokenA), JString(BuyMilk))
     /\ Admitted
  \/ /\ \E id \in Ids, c \in {JTrue, JUndefined} :
          PutTaskFind(Bearer(TokenA), id, JString(Zed), c)
     /\ Admitted
  \/ /\ \E c \in BagToSet(pend) : PutTaskWrite(c)
     /\ Admitted
  \/ /\ \E id \in Ids : DeleteTaskFind(Bearer(TokenA), id)
     /\ Admitted
  \/ /\ \E c \in BagToSet(pend) : DeleteTaskWrite(c)
     /\ Admitted

SpecRace == Init /\ [][NextRace]_vars

\* Users A and B create, update and delete tasks, and user A reads and
\* writes their profile, in any order.
NextRecords ==
  \/ /\ \E h \in GoodHeaders : PostTask(h, JString(BuyMilk))
     /\ Admitted
  \/ /\ \E h \in GoodHeaders, id \in Ids : PutTask(h, id, JString(Zed), JTrue)
     /\ Admitted
  \/ /\ \E h \in GoodHeaders, id \in Ids : DeleteTask(h, id)
     /\ Admitted
  \/ /\ GetProfileFind(Bearer(TokenA))
     /\ Admitted
  \/ /\ \E c \in BagToSet(pend) : GetProfileSave(c)
     /\ Admitted
  \/ /\ PutProfile(Bearer(TokenA),
                   Body(JString(Zed), JUndefined, JString(<<>>), JUndefined))
     /\ Admitted

SpecRecords == Init /\ [][NextRecords]_vars

\* ------------------------------------------------- client: App.jsx (tasks)
\* the session's credential, attached to every request by the axios
\* interceptor
SessionHeader == Bearer(TokenA)

\* a request the session has sent and the server has not handled yet; seen
\* holds the state that the closure of the handler awaiting it has captured
Request(op, id, title, completed) ==
  [op |-> op, id |-> id, title |-> title, completed |-> completed,
   phase |-> "sent", status |-> 0, data |-> <<>>, seen |-> <<>>]

\* the request handled, its response on the way to the session
Answered(m, status, data) ==
  [m EXCEPT !.phase = "answered", !.status = status, !.data = data]

\* axios told to resolve whatever the status (validateStatus: () => true)
ResolvesAnyStatus(m) == m.status \in 0..599

\* axios resolves a response with a 2xx status and rejects any other
Resolves(m) == m.status \in 200..299

Send(m) == net (+) SetToBag({m})
Drop(m) == net (-) SetToBag({m})

\* SecureInput: onChange hands on the text without angle brackets, cut to
\* MAX_LENGTH characters
MAX_LENGTH == 100
secureInput(value) == substring0(replaceAngle(value), MAX_LENGTH)

\* the rows that are drawn (filter 'all'), and the row in edit mode
Rows == {client.tasks[i] : i \in DOMAIN client.tasks}
EditRows == {task \in Rows : task._id = client.editTaskId}
ViewRows == Rows \ EditRows

\* texts typed into the new-task field and into the edit field
NewTaskTexts == {BuyMilk}
EditTexts == {Zed}

\* onChange of the new-task field
SetNewTask(value) ==
  /\ client' = [client EXCEPT !.newTask = secureInput(value)]
  /\ UNCHANGED <<tasks, nextId, now, profiles, pend, last, limiter, net>>

\* addTask, up to its await
AddTask ==
  /\ trim(client.newTask) # <<>>
  /\ BagCardinality(net) < MaxInflight
  /\ nextId + BagCardinality([m \in {x \in BagToSet(net) :
                                       x.op = "addTask" /\ x.phase = "sent"}
                                |-> net[m]]) <= MaxTasks
  /\ client.calls < MaxCalls
  /\ client' = [client EXCEPT !.loading = TRUE, !.calls = @ + 1]
  /\ net' = Send(Request("addTask", NoId, JString(client.newTask), JUndefined))
  /\ UNCHANGED <<tasks, nextId, now, profiles, pend, last, limiter>>

\* toggleComplete(task), up to its await
ToggleComplete(task) ==
  /\ task \in ViewRows
  /\ BagCardinality(net) < MaxInflight
  /\ client.calls < MaxCalls
  /\ client' = [client EXCEPT !.loading = TRUE, !.calls = @ + 1]
  /\ net' = Send(Request("toggleComplete", task._id, task.title,
                         IF Truthy(task.completed) THEN JFalse ELSE JTrue))
  /\ UNCHANGED <<tasks, nextId, now, profiles, pend, last, limiter>>

\* deleteTask(id), up to its await
ClickDelete(task) ==
  /\ task \in ViewRows
  /\ BagCardinality(net) < MaxInflight
  /\ client.calls < MaxCalls
  /\ client' = [client EXCEPT !.loading = TRUE, !.calls = @ + 1]
  /\ net' = Send(Request("deleteTask", task._id, JUndefined, JUndefined))
  /\ UNCHANGED <<tasks, nextId, now, profiles, pend, last, limiter>>

\* startEditing that keeps the text of the edit field
startEditingKeepsBuffer(task) ==
  /\ task \in ViewRows
  /\ client' = [client EXCEPT !.editTaskId = task._id]
  /\ UNCHANGED <<tasks, nextId, now, profiles, pend, last, limiter, net>>

\* startEditing(task)
startEditing(task) ==
  /\ task \in ViewRows
  /\ client' = [client EXCEPT !.editTaskId = task._id,
                              !.editTaskTitle = task.title.str]
  /\ UNCHANGED <<tasks, nextId, now, profiles, pend, last, limiter, net>>

\* onChange of the edit field
SetEditTaskTitle(value) ==
  /\ EditRows # {}
  /\ client' = [client EXCEPT !.editTaskTitle = secureInput(value)]
  /\ UNCHANGED <<tasks, nextId, now, profiles, pend, last, limiter, net>>

\* cancelEditing, from the cancel button or the Escape key
cancelEditing ==
  /\ EditRows # {}
  /\ client' = [client EXCEPT !.editTaskId = NoId, !.editTaskTitle = <<>>]
  /\ UNCHANGED <<tasks, nextId, now, profiles, pend, last, limiter, net>>

\* saveEdit(id), from the save button or the Enter key, up to its await
SaveEdit ==
  /\ EditRows # {}
  /\ trim(client.editTaskTitle) # <<>>
  /\ BagCardinality(net) < MaxInflight
  /\ client.calls < MaxCalls
  /\ client' = [client EXCEPT !.loading = TRUE, !.calls = @ + 1]
  /\ net' = Send(Request("saveEdit", client.editTaskId,
                         JString(client.editTaskTitle), JUndefined))
  /\ UNCHANGED <<tasks, nextId, now, profiles, pend, last, limiter>>

\* fetchTasks, up to its await
fetchTasks == Request("fetchTasks", NoId, JUndefined, JUndefined)

\* the server handles a request of the session
Serve(m) ==
  /\ BagIn(m, net)
  /\ m.phase = "sent"
  /\ CASE m.op = "fetchTasks" -> GetTasks(SessionHeader)
       [] m.op = "addTask" -> PostTask(SessionHeader, m.title)
       [] m.op \in {"toggleComplete", "saveEdit"} ->
            PutTask(SessionHeader, m.id, m.title, m.completed)
       [] m.op = "deleteTask" -> DeleteTask(SessionHeader, m.id)
  /\ net' = Drop(m) (+) SetToBag({Answered(m, last'.status,
                                            IF m.op = "fetchTasks" /\ last'.status = 200
                                            THEN last'.body ELSE <<>>)})
  /\ UNCHANGED <<limiter, client>>

\* the request does not reach the server: axios rejects the call with a
\* network error, which carries no status
NetworkError(m) ==
  /\ BagIn(m, net)
  /\ m.phase = "sent"
  /\ net' = Drop(m) (+) SetToBag({Answered(m, 0, <<>>)})
  /\ UNCHANGED <<tasks, nextId, now, profiles, pend, last, limiter, client>>

\* handlers that run cancelEditing() in finally, whatever the outcome
ReceiveExitsOnFailure(m) ==
  /\ BagIn(m, net)
  /\ m.phase = "answered"
  /\ IF m.op = "fetchTasks"
     THEN /\ client' = [client EXCEPT
                          !.tasks = IF Resolves(m) THEN m.data ELSE @,
                          !.loading = FALSE]
          /\ net' = Drop(m)
     ELSE /\ client' = [client EXCEPT
                          !.newTask = IF m.op = "addTask" /\ Resolves(m)
                                      THEN <<>> ELSE @,
                          !.editTaskId = IF m.op = "saveEdit" THEN NoId ELSE @,
                          !.editTaskTitle = IF m.op = "saveEdit" THEN <<>> ELSE @,
                          !.loading = FALSE]
          /\ net' = IF Resolves(m) THEN Drop(m) (+) SetToBag({fetchTasks})
                    ELSE Drop(m)
  /\ UNCHANGED <<tasks, nextId, now, profiles, pend, last, limiter>>

\* the session receives a response: the handler that awaits it runs on.
\* fetchTasks: setTasks(res.data) if the call resolved; setLoading(false).
\* addTask, toggleComplete, deleteTask, saveEdit: if the call resolved, the
\* handler's own updates and fetchTasks(), which runs up to its await; then
\* setLoading(false).
Receive(m) ==
  /\ BagIn(m, net)
  /\ m.phase = "answered"
  /\ IF m.op = "fetchTasks"
     THEN /\ client' = [client EXCEPT
                          !.tasks = IF Resolves(m) THEN m.data ELSE @,
                          !.loading = FALSE]
          /\ net' = Drop(m)
     ELSE IF Resolves(m)
     THEN /\ client' = [client EXCEPT
                          !.newTask = IF m.op = "addTask" THEN <<>> ELSE @,
                          !.editTaskId = IF m.op = "saveEdit" THEN NoId ELSE @,
                          !.editTaskTitle = IF m.op = "saveEdit" THEN <<>> ELSE @,
                          !.loading = FALSE]
          /\ net' = Drop(m) (+) SetToBag({fetchTasks})
     ELSE /\ client' = [client EXCEPT !.loading = FALSE]
          /\ net' = Drop(m)
  /\ UNCHANGED <<tasks, nextId, now, profiles, pend, last, limiter>>

\* One session of user A adds, completes, deletes and saves tasks (the edit
\* field is left as startEditing filled it); the server handles its
\* requests, and the responses arrive, in any order.
NextSync ==
  \/ \E value \in NewTaskTexts : SetNewTask(value)
  \/ AddTask
  \/ \E task \in Rows : ToggleComplete(task)
  \/ \E task \in Rows : ClickDelete(task)
  \/ \E task \in Rows : startEditing(task)
  \/ SaveEdit
  \/ \E m \in BagToSet(net) : Serve(m)
  \/ \E m \in BagToSet(net) : Receive(m)

SpecSync == Init /\ [][NextSync]_vars

\* One session of user A adds tasks, one at a time, and edits their titles:
\* it opens a row for editing, types, cancels or saves, also while saves and
\* refetches are under way.
NextEditing ==
  \/ \E value \in NewTaskTexts : net = EmptyBag /\ SetNewTask(value)
  \/ net = EmptyBag /\ AddTask
  \/ \E task \in Rows : startEditing(task)
  \/ \E value \in EditTexts : SetEditTaskTitle(value)
  \/ cancelEditing
  \/ SaveEdit
  \/ \E m \in BagToSet(net) : Serve(m)
  \/ \E m \in BagToSet(net) : Receive(m)

SpecEditing == Init /\ [][NextEditing]_vars

\* One session of user A adds tasks, one at a time, and completes, deletes
\* and edits them: every handler of a row, with calls and refetches under
\* way, some of which do not reach the server.
NextRows ==
  \/ \E value \in NewTaskTexts : net = EmptyBag /\ SetNewTask(value)
  \/ net = EmptyBag /\ AddTask
  \/ \E task \in Rows : ToggleComplete(task)
  \/ \E task \in Rows : ClickDelete(task)
  \/ \E task \in Rows : startEditing(task)
  \/ \E value \in EditTexts : SetEditTaskTitle(value)
  \/ cancelEditing
  \/ SaveEdit
  \/ \E m \in BagToSet(net) : Serve(m)
  \/ \E m \in BagToSet(net) : NetworkError(m)
  \/ \E m \in BagToSet(net) : Receive(m)

SpecRows == Init /\ [][NextRows]_vars

\* ---------------------------------------- client: UserProfile.jsx (panel)
\* the panel is mounted: useState(isNewUser) for editing, and the effect
\* that runs fetchProfile up to its await
OpenProfile(isNewUser) ==
  /\ ~client.showProfile
  /\ BagCardinality(net) < MaxInflight
  /\ client' = [client EXCEPT !.showProfile = TRUE,
                              !.panel = [Unmounted EXCEPT !.editing = isNewUser,
                                                          !.loading = TRUE]]
  /\ net' = Send(Request("fetchProfile", NoId, JUndefined, JUndefined))
  /\ UNCHANGED <<tasks, nextId, now, profiles, pend, last, limiter>>

\* the avatar the panel shows
ShownAvatar ==
  IF client.panel.editing THEN client.panel.formData.avatar
  ELSE IF client.panel.profile = JNull THEN JUndefined
  ELSE client.panel.profile.avatar

\* the form filled from a profile: field || ''
FormOf(profile) ==
  IF profile = JNull
  THEN Unmounted.formData
  ELSE [displayName |-> Or(profile.displayName, JString(<<>>)),
        avatar |-> Or(profile.avatar, JString(<<>>)),
        bio |-> Or(profile.bio, JString(<<>>))]

\* generateNewAvatar, up to its await
GenerateNewAvatar ==
  /\ client.showProfile
  /\ BagCardinality(net) < MaxInflight
  /\ client.calls < MaxCalls
  /\ client' = [client EXCEPT !.panel.loading = TRUE, !.calls = @ + 1]
  /\ net' = Send([Request("generateNewAvatar", NoId, JUndefined, JUndefined)
                    EXCEPT !.seen = <<client.panel.editing,
                                      client.panel.profile>>])
  /\ UNCHANGED <<tasks, nextId, now, profiles, pend, last, limiter>>

\* the body of a response that resolved
DataOf(response) ==
  IF response.status \in 200..299 THEN <<response.body>> ELSE <<>>

\* the server takes the session's GET /profile up to its first await: it
\* answers, or goes on to create the profile
ServeProfile(m) ==
  /\ BagIn(m, net)
  /\ m.op \in {"fetchProfile", "fetchUserProfile"}
  /\ m.phase = "sent"
  /\ Limited("GET /profile", SessionHeader, GetProfileFind(SessionHeader))
  /\ net' = Drop(m) (+)
            SetToBag({IF pend' = pend
                      THEN Answered(m, last'.status, DataOf(last'))
                      ELSE [m EXCEPT !.phase = "saving"]})
  /\ UNCHANGED client

\* the server finishes the session's GET /profile that creates the profile
ServeProfileSave(m) ==
  /\ BagIn(m, net)
  /\ m.phase = "saving"
  /\ \E c \in BagToSet(pend) : c.hdr = SessionHeader /\ GetProfileSave(c)
  /\ net' = Drop(m) (+) SetToBag({Answered(m, last'.status, DataOf(last'))})
  /\ UNCHANGED <<limiter, client>>

\* the server handles the session's POST /profile/new-avatar
ServeNewAvatar(m) ==
  /\ BagIn(m, net)
  /\ m.op = "generateNewAvatar"
  /\ m.phase = "sent"
  /\ Limited("POST /profile/new-avatar", SessionHeader,
             NotFound("POST /profile/new-avatar", SessionHeader))
  /\ net' = Drop(m) (+) SetToBag({Answered(m, last'.status, DataOf(last'))})
  /\ UNCHANGED client

\* fetchProfile after its await
ReceiveProfile(m) ==
  /\ BagIn(m, net)
  /\ m.op = "fetchProfile"
  /\ m.phase = "answered"
  /\ client' = IF Resolves(m)
               THEN [client EXCEPT !.panel.profile = m.data[1],
                                   !.panel.formData = FormOf(m.data[1]),
                                   !.panel.loading = FALSE]
               ELSE [client EXCEPT !.panel.loading = FALSE]
  /\ net' = Drop(m)
  /\ UNCHANGED <<tasks, nextId, now, profiles, pend, last, limiter>>

\* { ...profile, avatar: newAvatar }
WithAvatar(profile, newAvatar) ==
  IF profile = JNull THEN [avatar |-> newAvatar]
  ELSE [profile EXCEPT !.avatar = newAvatar]

\* generateNewAvatar after its await; editing and profile are the values
\* its closure holds, res.data.avatar is undefined if the body has none
ReceiveNewAvatar(m) ==
  /\ BagIn(m, net)
  /\ m.op = "generateNewAvatar"
  /\ m.phase = "answered"
  /\ LET editing == m.seen[1]
         profile == m.seen[2]
         newAvatar == IF "avatar" \in DOMAIN m.data[1]
                      THEN m.data[1].avatar ELSE JUndefined
     IN client' =
          IF ~Resolves(m)
          THEN [client EXCEPT !.panel.loading = FALSE]
          ELSE IF editing
          THEN [client EXCEPT !.panel.formData.avatar = newAvatar,
                              !.panel.loading = FALSE]
          ELSE [client EXCEPT
                  !.panel.formData.avatar = newAvatar,
                  !.panel.profile = WithAvatar(client.panel.profile, newAvatar),
                  !.userProfile = WithAvatar(profile, newAvatar),
                  !.panel.loading = FALSE]
  /\ net' = Drop(m)
  /\ UNCHANGED <<tasks, nextId, now, profiles, pend, last, limiter>>

\* One session of user A opens the profile panel and asks for a new avatar,
\* while a caller at the same address sends requests to an unknown route,
\* all within half a window of the limiter.
NextAvatar ==
  \/ /\ Limited("GET /", NoHeader, NotFound("GET /", NoHeader))
     /\ NoSession
  \/ \E isNewUser \in BOOLEAN : OpenProfile(isNewUser)
  \/ GenerateNewAvatar
  \/ \E m \in BagToSet(net) : ServeProfile(m)
  \/ \E m \in BagToSet(net) : ServeProfileSave(m)
  \/ \E m \in BagToSet(net) : ServeNewAvatar(m)
  \/ \E m \in BagToSet(net) : ReceiveProfile(m)
  \/ \E m \in BagToSet(net) : ReceiveNewAvatar(m)

SpecAvatar == Init /\ [][NextAvatar]_vars

\* ------------------------------------- client: App.jsx (new-user prompt)
\* useAuth0().user: the claims of the session's identity
user == SessionHeader[2]

\* a === b
StrictEquals(a, b) == a = b

\* isNewUser that looks at the display name only
isNewUserWhateverTheBio(profile) ==
  \/ ~Truthy(profile.displayName)
  \/ StrictEquals(profile.displayName, user.name)
  \/ StrictEquals(profile.displayName, user.email)
  \/ StrictEquals(profile.displayName, JString(<<"U", "s", "e", "r">>))

\* isNewUser(profile)
isNewUser(profile) ==
  /\ ~Truthy(profile.bio)
  /\ \/ ~Truthy(profile.displayName)
     \/ StrictEquals(profile.displayName, user.name)
     \/ StrictEquals(profile.displayName, user.email)
     \/ StrictEquals(profile.displayName, JString(<<"U", "s", "e", "r">>))

\* what the profile form of an earlier session of the user has saved
SavedForms ==
  {Body(JString(Zed), JUndefined, JString(<<>>), JUndefined),
   Body(JString(<<"A", "l">>), JUndefined, JString(<<"h", "i">>), JUndefined),
   Body(JString(<<"A", "l">>), JUndefined, JString(<<>>), JUndefined)}

\* isAuthenticated turns true: the effect runs fetchTasks and
\* fetchUserProfile up to their awaits
Authenticate ==
  /\ ~client.isAuthenticated
  /\ net = EmptyBag
  /\ client' = [client EXCEPT !.isAuthenticated = TRUE, !.loading = TRUE]
  /\ net' = SetToBag({fetchTasks,
                      [Request("fetchUserProfile", NoId, JUndefined, JUndefined)
                         EXCEPT !.seen = <<client.hasCheckedProfile>>]})
  /\ UNCHANGED <<tasks, nextId, now, profiles, pend, last, limiter>>

\* fetchUserProfile after its await; hasCheckedProfile is the value its
\* closure holds
ReceiveUserProfile(m) ==
  /\ BagIn(m, net)
  /\ m.op = "fetchUserProfile"
  /\ m.phase = "answered"
  /\ LET hasCheckedProfile == m.seen[1]
         prompt == Resolves(m) /\ ~hasCheckedProfile /\ isNewUser(m.data[1])
     IN client' = [client EXCEPT
                     !.userProfile = IF Resolves(m) THEN m.data[1] ELSE @,
                     !.timers = IF prompt THEN @ + 1 ELSE @,
                     !.scheduled = IF prompt THEN @ + 1 ELSE @,
                     !.hasCheckedProfile = TRUE]
  /\ net' = Drop(m)
  /\ UNCHANGED <<tasks, nextId, now, profiles, pend, last, limiter>>

\* the timer runs out: setShowProfile(true), which mounts the panel with
\* isNewUser={!hasCheckedProfile || isNewUser(userProfile)}
PromptFires ==
  /\ client.timers > 0
  /\ ~client.showProfile
  /\ BagCardinality(net) < MaxInflight
  /\ client' = [client EXCEPT
                  !.timers = @ - 1,
                  !.showProfile = TRUE,
                  !.panel = [Unmounted EXCEPT
                               !.editing = \/ ~client.hasCheckedProfile
                                           \/ isNewUser(client.userProfile),
                               !.loading = TRUE]]
  /\ net' = Send(Request("fetchProfile", NoId, JUndefined, JUndefined))
  /\ UNCHANGED <<tasks, nextId, now, profiles, pend, last, limiter>>

\* The user's profile is as the server or an earlier session has left it;
\* the session logs in, fetches the list and the profile, and the prompt
\* opens the panel.
NextPrompt ==
  \/ /\ ~client.isAuthenticated
     /\ \E b \in SavedForms : PutProfile(SessionHeader, b)
     /\ Admitted
  \/ Authenticate
  \/ \E m \in BagToSet(net) : m.op = "fetchTasks" /\ Serve(m)
  \/ \E m \in BagToSet(net) : m.op = "fetchTasks" /\ Receive(m)
  \/ \E m \in BagToSet(net) : ServeProfile(m)
  \/ \E m \in BagToSet(net) : ServeProfileSave(m)
  \/ \E m \in BagToSet(net) : NetworkError(m)
  \/ \E m \in BagToSet(net) : ReceiveUserProfile(m)
  \/ PromptFires
  \/ \E m \in BagToSet(net) : ReceiveProfile(m)

SpecPrompt == Init /\ [][NextPrompt]_vars

\* ------------------------------------------------------------- properties
Brackets == {"<", ">"}

\* the text a title is reduced to: brackets removed, blanks at the ends cut
Cleaned(str) == trim(SelectSeq(str, LAMBDA c : c \notin Brackets))

\* user h authenticates as
Caller(h) == h[2].sub

\* the step answers a PUT /tasks/:id or DELETE /tasks/:id that h's caller
\* sent for the id of d
RequestOn(h, d) ==
  /\ last'.route \in {"PUT /tasks/:id", "DELETE /tasks/:id"}
  /\ last'.id = d._id
  /\ last'.hdr = h
  /\ \/ DeleteTask(h, d._id)
     \/ /\ last'.route = "PUT /tasks/:id"
        /\ \E c \in Completions : PutTask(h, d._id, last'.title, c)

\* C1 as stated: a PUT /tasks/:id or DELETE /tasks/:id that user B sends for
\* a task of user A is answered 404 and leaves the task unchanged.
C1_ForeignRequestIs404 ==
  [][\A h \in GoodHeaders, d \in tasks :
       (Caller(h) # d.userId /\ RequestOn(h, d))
         => (last'.status = 404 /\ d \in tasks')]_vars

\* C1 amended: a DELETE /tasks/:id, or a PUT /tasks/:id whose title is valid
\* once sanitized, that user B sends for a task of user A is answered 404; a
\* PUT whose title is invalid is answered 400; in each case the task (title,
\* completed, completedAt, owner) is unchanged.
C1_ForeignRequestRefused ==
  [][\A h \in GoodHeaders, d \in tasks :
       (Caller(h) # d.userId /\ RequestOn(h, d))
         => /\ d \in tasks'
            /\ tasks' = tasks
            /\ last'.status =
                 IF /\ last'.route = "PUT /tasks/:id"
                    /\ \/ last'.title.type # "string"
                       \/ Len(Cleaned(last'.title.str)) \notin 1..MaxTitle
                 THEN 400 ELSE 404]_vars

C1_Witness ==
  /\ last.route = "PUT /tasks/:id"
  /\ last.status = 404
  /\ last.completed = NotRead
  /\ \E d \in tasks : d._id = last.id /\ d.userId # last.userId

\* C2: the body of a GET /tasks answered to user U holds every stored task
\* whose owner is U, once each, and no other task.
C2_ListIsOwnTasks ==
  (last.route = "GET /tasks" /\ last.status = 200)
    => /\ {last.body[i] : i \in DOMAIN last.body}
            = {d \in tasks : d.userId = last.userId}
       /\ \A i, j \in DOMAIN last.body : last.body[i] = last.body[j] => i = j

C2_Witness ==
  /\ last.route = "GET /tasks"
  /\ last.status = 200
  /\ DOMAIN last.body # {}
  /\ \E d \in tasks : d.userId # last.userId

\* the Authorization header is absent, does not start with 'Bearer ', or its
\* token fails verification
BadCredential(h) ==
  \/ h = NoHeader
  \/ Len(h) < 2
  \/ h[1] # "Bearer"
  \/ ~h[2].sig
  \/ h[2].alg # "RS256"
  \/ h[2].aud # Audience
  \/ h[2].iss # Issuer

\* C3: a request to a protected route with a bad credential is answered 401,
\* no handler writes, and Tasks and Profiles are unchanged.
C3_BadCredentialIs401 ==
  [][(last'.route \in Routes /\ BadCredential(last'.hdr))
       => /\ last'.status = 401
          /\ ~last'.wrote
          /\ tasks' = tasks
          /\ profiles' = profiles]_vars

C3_Witness ==
  /\ last.route = "PUT /tasks/:id"
  /\ last.hdr = Bearer(TokenForged)
  /\ last.status = 401
  /\ tasks # {}

\* C4 as stated: a POST /tasks whose title is a string of more than 100
\* characters is answered 400 and creates no task.
C4_LongTitleIs400 ==
  [][\A h \in GoodHeaders, t \in Titles :
       (last'.route = "POST /tasks" /\ last'.hdr = h /\ last'.title = t
          /\ t.type = "string" /\ Len(t.str) > MaxTitle /\ PostTask(h, t))
         => (last'.status = 400 /\ tasks' = tasks)]_vars

\* C4 amended: a POST /tasks whose title, with its angle brackets removed and
\* its ends trimmed, is longer than 100 characters is answered 400 and
\* creates no task.
C4_LongCleanTitleIs400 ==
  [][\A h \in GoodHeaders, t \in Titles :
       (last'.route = "POST /tasks" /\ last'.hdr = h /\ last'.title = t
          /\ t.type = "string" /\ Len(Cleaned(t.str)) > MaxTitle
          /\ PostTask(h, t))
         => (last'.status = 400 /\ tasks' = tasks /\ nextId' = nextId)]_vars

C4_Witness ==
  /\ last.route = "POST /tasks"
  /\ last.title = JString(Rep("a", 101))
  /\ last.status = 400
  /\ ~last.wrote

\* C5: every stored title is a string that is 1 to 100 characters long after
\* trimming and holds neither '<' nor '>'.
C5_StoredTitlesClean ==
  \A d \in tasks :
    /\ d.title.type = "string"
    /\ Len(trim(d.title.str)) \in 1..100
    /\ \A i \in 1..Len(d.title.str) : d.title.str[i] \notin Brackets

C5_Witness ==
  /\ last.route = "PUT /tasks/:id"
  /\ last.title = JString(ScriptShipIt)
  /\ last.status = 200
  /\ \E d \in tasks : d._id = last.id /\ Len(d.title.str) = Len(ScriptShipIt) - 4

\* C6: a PUT /tasks/:id with completed=true that updates a task sets its
\* completedAt to a timestamp; a PUT with completed=false that updates a
\* task, completed before or not, sets its completedAt to null.
C6_ToggleSetsCompletedAt ==
  [][\A h \in GoodHeaders, d \in tasks, t \in PlainTitles :
       /\ (last'.completed = JTrue /\ last'.status = 200 /\ last'.id = d._id
             /\ PutTask(h, d._id, t, JTrue))
            => \E e \in tasks' :
                 e._id = d._id /\ e.completed = JTrue /\ e.completedAt.type = "date"
       /\ (last'.completed = JFalse /\ last'.status = 200 /\ last'.id = d._id
             /\ PutTask(h, d._id, t, JFalse))
            => \E e \in tasks' :
                 e._id = d._id /\ e.completed = JFalse /\ e.completedAt = JNull]_vars

C6_Witness ==
  /\ last.route = "PUT /tasks/:id"
  /\ last.completed = JFalse
  /\ last.status = 200
  /\ now > 1
  /\ \E d \in tasks : d._id = last.id /\ d.completedAt = JNull

\* C7: when a user without tasks creates one with a valid title t, every
\* answer GET /tasks can then give that user is the one task, its title t
\* sanitized and trimmed, completed=false, completedAt=null.
C7_PostThenGet ==
  [][\A h \in GoodHeaders, t \in Titles :
       (last'.route = "POST /tasks" /\ last'.status = 200 /\ last'.hdr = h
          /\ last'.title = t
          /\ {d \in tasks : d.userId = Caller(h)} = {} /\ PostTask(h, t))
         => \A found \in sort(find(tasks', Caller(h))) :
              /\ DOMAIN found = {1}
              /\ found[1].title = JString(Cleaned(t.str))
              /\ found[1].completed = JFalse
              /\ found[1].completedAt = JNull
              /\ found[1].userId = Caller(h)]_vars

C7_Witness ==
  /\ last.route = "POST /tasks"
  /\ last.title = JString(BuyMilk \o Rep(" ", 93))
  /\ last.status = 200
  /\ {d \in tasks : d.userId = last.userId} = {last.body}
  /\ last.body.title = JString(BuyMilk)

\* completion time of a task; a completed task without one sorts first
At(d) == IF d.completedAt.type = "date" THEN d.completedAt.ms ELSE 0

\* C8: in the body of a GET /tasks no completed task comes before an active
\* one, and the completed tasks are in ascending order of completedAt.
C8_ActiveFirstThenByTime ==
  (last.route = "GET /tasks" /\ last.status = 200)
    => \A i, j \in DOMAIN last.body :
         i < j =>
           /\ ~(Truthy(last.body[i].completed) /\ ~Truthy(last.body[j].completed))
           /\ (Truthy(last.body[i].completed) /\ Truthy(last.body[j].completed))
                => At(last.body[i]) <= At(last.body[j])

C8_Witness ==
  /\ last.route = "GET /tasks"
  /\ last.status = 200
  /\ DOMAIN last.body = {1, 2}
  /\ last.body[1]._id > last.body[2]._id
  /\ Truthy(last.body[1].completed)
  /\ At(last.body[1]) > 0
  /\ At(last.body[1]) < At(last.body[2])

\* the profiles stored for user u
ProfilesOf(u) == {i \in 1..Len(profiles) : profiles[i].userId = u}

\* C9: of two GET /profile in succession for a user without a profile, the
\* first inserts one profile and returns it, the second inserts nothing and
\* returns the stored record.
C9_GetProfileTwice ==
  [][\A h \in GoodHeaders :
       /\ \A c \in BagToSet(pend) :
            (c.hdr = h /\ ProfilesOf(Caller(h)) = {} /\ GetProfileSave(c))
              => /\ last'.status = 200
                 /\ profiles' = Append(profiles, last'.body)
                 /\ last'.body.userId = Caller(h)
       /\ (ProfilesOf(Caller(h)) # {} /\ GetProfileFind(h))
            => /\ last'.status = 200
               /\ last'.route = "GET /profile"
               /\ profiles' = profiles
               /\ pend' = pend
               /\ \E i \in ProfilesOf(Caller(h)) : last'.body = profiles[i]]_vars

C9_Witness ==
  /\ last.route = "GET /profile"
  /\ last.status = 200
  /\ ~last.wrote
  /\ pend = EmptyBag
  /\ Len(profiles) = 1
  /\ last.body = profiles[1]

\* C10: the Profiles collection holds at most one record for each owner.
C10_OneProfilePerOwner ==
  \A u \in Users : Cardinality(ProfilesOf(u)) <= 1

C10_Witness ==
  /\ last.route = "GET /profile"
  /\ last.status = 500
  /\ Cardinality(ProfilesOf(last.userId)) = 1

\* C11: every stored profile has the avatar generated from its owner's id
\* and a display name that is a non-empty string, in whatever order the
\* owner's first GET /profile and first PUT /profile come.
C11_ProfileCarriesDefaults ==
  \A i \in 1..Len(profiles) :
    /\ profiles[i].avatar = generateShapesAvatar(profiles[i].userId)
    /\ profiles[i].displayName.type = "string"
    /\ Len(profiles[i].displayName.str) > 0

\* C12: the display name stored when a PUT /profile is accepted is a string
\* of 1 to 50 characters without angle brackets.
C12_StoredDisplayNameValid ==
  (last.route = "PUT /profile" /\ last.status = 200
     /\ last.body.displayName # JUndefined)
    => /\ last.body.displayName.type = "string"
       /\ Len(last.body.displayName.str) \in 1..MaxDisplayName
       /\ \A i \in 1..Len(last.body.displayName.str) :
            last.body.displayName.str[i] \notin Brackets

\* C13: a POST /tasks, PUT /tasks/:id or PUT /profile that is answered 400
\* leaves the Tasks and the Profiles collections as they were.
C13_RejectedWritesNothing ==
  [][(last'.status = 400
        /\ last'.route \in {"POST /tasks", "PUT /tasks/:id", "PUT /profile"})
       => /\ tasks' = tasks
          /\ profiles' = profiles
          /\ nextId' = nextId
          /\ ~last'.wrote]_vars

C13_Witness ==
  /\ last.route = "PUT /profile"
  /\ last.status = 400
  /\ last.body = Error("Bio must be less than 500 characters")
  /\ tasks # {}
  /\ Len(profiles) > 0

\* id is the id of no stored task
Absent(id) == \A e \in tasks : e._id # id

\* C14: for one caller and one payload, a PUT /tasks/:id or DELETE
\* /tasks/:id on the id of another user's task is answered with the status
\* and body that the same request on the id of no task is answered with.
C14_ForeignLooksAbsent ==
  \A h \in GoodHeaders, d \in tasks, id \in Ids :
    (d.userId # Caller(h) /\ Absent(id)) =>
      /\ \A t \in PlainTitles, c \in Completions :
           LET foreign == PutTaskAnswer(h, d._id, t, c)
               absent == PutTaskAnswer(h, id, t, c)
           IN foreign.status = absent.status /\ foreign.body = absent.body
      /\ LET foreign == DeleteTaskAnswer(h, d._id)
             absent == DeleteTaskAnswer(h, id)
         IN foreign.status = absent.status /\ foreign.body = absent.body

C14_Witness ==
  /\ last.route = "DELETE /tasks/:id"
  /\ last.status = 404
  /\ \E d \in tasks : d._id = last.id /\ d.userId # last.userId
  /\ \E id \in Ids : Absent(id)

\* the step is a request of the client: the limiter counts it
Arrives == limiter'.recent[2] = limiter.recent[2] + 1

\* requests of the client in the minute that ends now
InRollingMinute == limiter.recent[1] + limiter.recent[2]

\* requests of the client in the limiter's open window; none once the
\* window has run out
InWindow ==
  LET opened == (limiter.resetTime - windowMs) \div HalfWindow
  IN IF limiter.hits = 0 \/ Ms(now) >= limiter.resetTime THEN 0
     ELSE IF opened = now THEN limiter.recent[2]
     ELSE InRollingMinute

\* C15 as stated: a request that arrives when the client has sent 30 or more
\* requests within the last minute is answered 429, wherever that minute
\* lies relative to the limiter's window.
C15_RollingMinuteLimit ==
  [][(Arrives /\ InRollingMinute >= max) => last'.status = 429]_vars

\* C15 amended: a request is answered 429 exactly when the client has sent
\* 30 or more requests in the limiter's open window, whatever routes the
\* requests target; the first request after the window has run out opens
\* the next window and is admitted.
C15_WindowLimit ==
  [][Arrives => (last'.status = 429 <=> InWindow >= max)]_vars

C15_Witness ==
  /\ last.status = 429
  /\ last.route = "POST /profile/new-avatar"
  /\ limiter.hits = max + 1
  /\ now = 2

\* C16 as stated: a GET /health from a caller without a credential is
\* answered 200 with the service status and a timestamp, in every state.
C16_HealthAlways200 ==
  [][(Arrives /\ last'.route = "GET /health" /\ last'.hdr \in Anonymous)
       => /\ last'.status = 200
          /\ last'.body.status = "OK"
          /\ last'.body.timestamp = toISOString(JDate(now))]_vars

\* C16 amended: a GET /health from a caller without a credential is answered
\* 200 with the service status and the timestamp of the request unless the
\* client has sent 30 or more requests in the limiter's open window, when it
\* is answered 429; it is never answered 401 and changes no stored record.
C16_HealthUnlessLimited ==
  [][(Arrives /\ last'.route = "GET /health" /\ last'.hdr \in Anonymous)
       => /\ IF InWindow >= max
             THEN last'.status = 429 /\ last'.body = TooManyRequests
             ELSE /\ last'.status = 200
                  /\ last'.body.status = "OK"
                  /\ last'.body.timestamp = toISOString(JDate(now))
          /\ tasks' = tasks
          /\ profiles' = profiles]_vars

C16_Witness ==
  /\ last.route = "GET /health"
  /\ last.hdr = NoHeader
  /\ last.status = 200
  /\ limiter.hits = max
  /\ now = MaxClock

\* C18: once no request of the session is in flight, the list the session
\* displays is the server's list of the user's tasks.
C18_DisplayedMatchesServer ==
  net = EmptyBag => client.tasks \in sort(find(tasks, Caller(SessionHeader)))

\* the response to the addTask, toggleComplete, deleteTask or saveEdit call
\* m reaches its handler
Returns(m) == m.op # "fetchTasks" /\ Receive(m)

\* C19: every addTask, toggleComplete, deleteTask and saveEdit call is
\* followed by a refetch of the list, whether the call succeeded or failed.
C19_RefetchesWhateverTheOutcome ==
  [][\A m \in BagToSet(net) :
       Returns(m) => CopiesIn(fetchTasks, net') = CopiesIn(fetchTasks, net) + 1]_vars

\* C20: at most one row is in edit mode, and a step that puts a row in edit
\* mode makes it the only such row and loads its title into the edit field,
\* whatever the field held for the row edited before.
C20_OneRowEdits ==
  /\ [](Cardinality(EditRows) <= 1)
  /\ [][client'.editTaskId \notin {NoId, client.editTaskId} =>
          \E task \in Rows : /\ EditRows' = {task}
                             /\ client'.editTaskTitle = task.title.str]_vars

\* row 2 is being edited, with its own title in the edit field, while the
\* save of the other text typed for row 1 is still under way
C20_Witness ==
  /\ \E task \in EditRows : task._id = 2 /\ client.editTaskTitle = task.title.str
  /\ \E m \in BagToSet(net) : /\ m.op = "saveEdit" /\ m.phase = "sent" /\ m.id = 1
                              /\ m.title.str # client.editTaskTitle

\* the step answers a request to a route that the server does not define
AnswersUnknown ==
  Arrives /\ pend' = pend /\ last'.route \in UnknownRoutes

\* the step changes no stored record
StoredUnchanged ==
  tasks' = tasks /\ profiles' = profiles /\ nextId' = nextId /\ pend' = pend

\* a generateNewAvatar call that returns has failed and has left the avatar
\* the session shows, and the profiles it holds, as they were
NewAvatarFails ==
  \A m \in BagToSet(net) :
    ReceiveNewAvatar(m) =>
      /\ ~Resolves(m)
      /\ ShownAvatar' = ShownAvatar
      /\ client'.panel.profile = client.panel.profile
      /\ client'.panel.formData = client.panel.formData
      /\ client'.userProfile = client.userProfile

EditCleared == client'.editTaskId = NoId /\ client'.editTaskTitle = <<>>

\* the step leaves the edit state as it was
EditKept ==
  /\ client'.editTaskId = client.editTaskId
  /\ client'.editTaskTitle = client.editTaskTitle

\* the response to the saveEdit call m reaches its handler
SaveReturns(m) == m.op = "saveEdit" /\ Receive(m)

\* C21 as stated: cancelEditing, and every saveEdit call that returns,
\* leave editTaskId null and the edit field empty.
C21_ExitActionsLeave ==
  [][/\ cancelEditing => EditCleared
     /\ \A m \in BagToSet(net) : SaveReturns(m) => EditCleared]_vars

\* C21: cancelEditing leaves editTaskId null and the edit field empty at
\* once; saveEdit leaves the edit state as it is while its PUT is under way,
\* clears it when the PUT has succeeded and keeps it when the PUT has failed.
C21_ExitOnCancelOrSavedEdit ==
  [][/\ cancelEditing => EditCleared
     /\ SaveEdit => EditKept
     /\ \A m \in BagToSet(net) :
          SaveReturns(m) => IF Resolves(m) THEN EditCleared ELSE EditKept]_vars

\* a save of row 1 was answered 404, the call has returned, and the row's
\* id and the text typed are still in the edit state
C21_Witness ==
  /\ last.route = "PUT /tasks/:id"
  /\ last.title = JString(Zed)
  /\ last.status = 404
  /\ net = EmptyBag
  /\ client.editTaskId = last.id
  /\ client.editTaskTitle = Zed

\* the step leaves the list shown, the new-task field and the edit state
ShownKept ==
  /\ client'.tasks = client.tasks
  /\ client'.newTask = client.newTask
  /\ EditKept

\* the step is a click that starts an addTask, toggleComplete, deleteTask or
\* saveEdit call
Calls == client'.calls = client.calls + 1

\* the addTask, toggleComplete, deleteTask or saveEdit call m returns, its
\* request having failed
Fails(m) == m.status \notin 200..299 /\ Returns(m)

\* C22: starting a mutating call changes neither the list shown, the
\* new-task field nor the edit state, and when the call has failed its
\* handler leaves them too and sends no request.
C22_FailureLeavesState ==
  [][/\ Calls => ShownKept
     /\ \A m \in BagToSet(net) : Fails(m) => ShownKept /\ net' = Drop(m)]_vars

\* an addTask call failed and has returned: the text is still in the
\* new-task field, the list is as it was and nothing is under way
C22_Witness ==
  /\ client.calls = 1
  /\ client.newTask = BuyMilk
  /\ client.tasks = <<>>
  /\ ~client.loading
  /\ net = EmptyBag
  /\ tasks = {}

\* the profile has no bio, and no display name or the one the identity
\* provider supplies
NotCustomized(profile) ==
  /\ profile.bio \in {JUndefined, JNull, JString(<<>>)}
  /\ profile.displayName \in {JUndefined, JNull, JString(<<>>), user.name,
                              user.email, JString(<<"U", "s", "e", "r">>)}

\* C23: the prompt is scheduled at most once in a session, and the step that
\* schedules it is the return of a profile fetch that succeeded with a
\* profile that is not customized.
C23_PromptOnceForNewUser ==
  /\ [](client.scheduled <= 1)
  /\ [][client'.scheduled # client.scheduled =>
          \E m \in BagToSet(net) :
            /\ m.op = "fetchUserProfile" /\ m.phase = "answered"
            /\ net' = Drop(m)
            /\ m.status = 200
            /\ NotCustomized(m.data[1])]_vars

\* the prompt was scheduled for a profile that carries the identity's name
\* and no bio, and has opened the panel
C23_Witness ==
  /\ client.scheduled = 1
  /\ client.timers = 0
  /\ client.showProfile
  /\ client.hasCheckedProfile
  /\ client.userProfile # JNull
  /\ client.userProfile.displayName = user.name

\* C24: a PUT /tasks/:id with a true completed, answered 200, on a task
\* that is completed already leaves the task's completedAt as it was.
C24_CompletedAtKeptWhenCompleted ==
  [][(/\ last'.route = "PUT /tasks/:id"
      /\ last'.status = 200
      /\ last'.wrote
      /\ Truthy(last'.completed)) =>
       \A d \in tasks :
         (d._id = last'.id /\ Truthy(d.completed)) =>
           \A e \in tasks' : e._id = d._id => e.completedAt = d.completedAt]_vars

TaskRoutes == {"GET /tasks", "POST /tasks", "PUT /tasks/:id", "DELETE /tasks/:id"}
ProfileRoutes == {"GET /profile", "PUT /profile"}

\* C25: a task that appears was created by a POST /tasks and is owned by
\* its caller, no step changes the owner of a task, a step that changes a
\* task is a task operation and changes no profile, and a step that changes
\* a profile is a profile operation and changes no task.
C25_OwnerFixedRecordsApart ==
  [][/\ \A e \in tasks' :
          IF \E d \in tasks : d._id = e._id
          THEN \A d \in tasks : d._id = e._id => d.userId = e.userId
          ELSE last'.route = "POST /tasks" /\ e.userId = Caller(last'.hdr)
     /\ (tasks' # tasks \/ nextId' # nextId) =>
          last'.route \in TaskRoutes /\ profiles' = profiles /\ pend' = pend
     /\ (profiles' # profiles \/ pend' # pend) =>
          last'.route \in ProfileRoutes \cup {last.route}
          /\ tasks' = tasks /\ nextId' = nextId]_vars

\* both users own a task, A's has been updated, and A has a profile with
\* the name A gave it
C25_Witness ==
  /\ \E d \in tasks : d.userId = UserA /\ d.title = JString(Zed)
  /\ \E d \in tasks : d.userId = UserB
  /\ Len(profiles) = 1
  /\ profiles[1].displayName = JString(Zed)

\* the step answers a PUT or DELETE on an id that no task has
AnswersForMissing ==
  /\ \/ BagCardinality(pend') < BagCardinality(pend)
     \/ pend' = pend /\ tasks' = tasks /\ nextId' = nextId
  /\ last'.route \in {"PUT /tasks/:id", "DELETE /tasks/:id"}
  /\ Absent(last'.id)

\* C26: every PUT /tasks/:id answered 200 carries the updated task, and a
\* PUT or DELETE answered when no task has its id is answered 404.
C26_UpdatedTaskOr404 ==
  /\ []((last.route = "PUT /tasks/:id" /\ last.status = 200) =>
          /\ last.body # JNull
          /\ last.body._id = last.id
          /\ last.body.title = sanitizeInput(last.title))
  /\ [][AnswersForMissing => last'.status = 404]_vars

\* C27: every GET /profile of an authenticated caller is answered 200 with
\* the caller's profile.
C27_GetProfileIs200 ==
  last.route = "GET /profile" =>
    /\ last.status = 200
    /\ last.body.userId = Caller(last.hdr)

\* the server handles the PUT /tasks/:id of a saveEdit call of the session
\* and answers 200
ServesSave ==
  \E m \in BagToSet(net) : m.op = "saveEdit" /\ Serve(m) /\ last'.status = 200

\* C28: the PUT of a saveEdit call leaves the completed flag and the
\* completedAt of the task it updates as they were.
C28_SaveKeepsCompletion ==
  [][ServesSave =>
       \A d \in tasks, e \in tasks' :
         (d._id = last'.id /\ e._id = d._id) =>
           e.completed = d.completed /\ e.completedAt = d.completedAt]_vars

\* the server handles the PUT /tasks/:id of a toggleComplete call of the
\* session and answers 200
ServesToggle ==
  \E m \in BagToSet(net) :
    m.op = "toggleComplete" /\ Serve(m) /\ last'.status = 200

\* C29: the PUT of a toggleComplete call leaves the title of the task it
\* updates as it was.
C29_ToggleKeepsTitle ==
  [][ServesToggle =>
       \A d \in tasks, e \in tasks' :
         (d._id = last'.id /\ e._id = d._id) => e.title = d.title]_vars

\* the task requests of the session that are under way
TaskRequests ==
  {m \in BagToSet(net) :
     m.op \in {"fetchTasks", "addTask", "toggleComplete", "deleteTask",
               "saveEdit"}}

\* C30: loading is true exactly while a task request of the session is
\* under way.
C30_LoadingWhileInFlight == client.loading <=> TaskRequests # {}

====
